---------------------------- MODULE Spec2Model ----------------------------
(***************************************************************************)
(* Model of ee/tabby-schema/src/dao.rs: the translation layer between      *)
(* storage rows (DAO types) and the API-facing domain models.              *)
(*                                                                         *)
(* The layer is a set of pure conversions.  The state of the model is the  *)
(* history of conversion calls made so far (`calls'); each action applies  *)
(* one conversion of dao.rs to an input drawn from a bounded set, or to    *)
(* the value an earlier call returned (round trips).  That is Spec, in     *)
(* which a use of HASHER yields the instance its first use builds.  The    *)
(* lazy construction of HASHER by concurrent first uses is SpecOnce.       *)
(***************************************************************************)
EXTENDS Integers, Sequences, FiniteSets, TLC

VARIABLES calls, once, cell, constructions, thread

\* The state of the lazily built HASHER and of the threads that use it.
hasherVars == <<once, cell, constructions, thread>>

vars == <<calls, once, cell, constructions, thread>>

None == [tag |-> "None"]
Some(x) == [tag |-> "Some", val |-> x]
Ok(x) == [tag |-> "Ok", val |-> x]
Err(e) == [tag |-> "Err", err |-> e]

IsSome(o) == o.tag = "Some"
IsOk(r) == r.tag = "Ok"
IsErr(r) == r.tag = "Err"

InSeq(c, s) == \E k \in 1..Len(s) : s[k] = c

IndexOf(c, s) == CHOOSE k \in 1..Len(s) : s[k] = c /\ \A m \in 1..(k - 1) : s[m] # c

Take(s, n) == SubSeq(s, 1, IF n < Len(s) THEN n ELSE Len(s))

Drop(s, n) == SubSeq(s, n + 1, Len(s))

(***************************************************************************)
(* 64-bit integers.  TLC's integers are 32 bits wide, so a u64 / i64 /     *)
(* usize value is its bit pattern: four 16-bit limbs, least significant    *)
(* first.  i64 is two's complement over the same limbs, so the casts       *)
(* `x as u64' and `x as i64' between the two keep the limbs.  i32 values    *)
(* are TLC integers.                                                       *)
(***************************************************************************)
LimbBase == 65536

LimbMax == LimbBase - 1

U64Zero == <<0, 0, 0, 0>>

U64IsZero(n) == n = U64Zero

\* A natural number below 2^31 as a u64.
U64FromNat(k) == <<k % LimbBase, k \div LimbBase, 0, 0>>

\* n divided by a small divisor m (0 < m < 2^15): long division, most
\* significant limb first.
U64DivMod(n, m) ==
    LET c4 == n[4]
        c3 == (c4 % m) * LimbBase + n[3]
        c2 == (c3 % m) * LimbBase + n[2]
        c1 == (c2 % m) * LimbBase + n[1]
    IN  [quot |-> <<c1 \div m, c2 \div m, c3 \div m, c4 \div m>>, rem |-> c1 % m]

\* n * m + a for small m and a (m < 2^15, a < 2^15); `overflow' tells that
\* the product does not fit 64 bits, `val' is the wrapped value.
U64MulAdd(n, m, a) ==
    LET t1 == n[1] * m + a
        t2 == n[2] * m + (t1 \div LimbBase)
        t3 == n[3] * m + (t2 \div LimbBase)
        t4 == n[4] * m + (t3 \div LimbBase)
    IN  [val |-> <<t1 % LimbBase, t2 % LimbBase, t3 % LimbBase, t4 % LimbBase>>,
         overflow |-> (t4 \div LimbBase) # 0]

\* `x as u64' for x : i64, and `x as i64' for x : u64: the same 64 bits.
I64AsU64(x) == <<x[1], x[2], x[3], x[4]>>

U64AsI64(x) == <<x[1], x[2], x[3], x[4]>>

I64IsNegative(x) == x[4] >= LimbBase \div 2

\* `x as i64' for x : i32: sign extension.
I32AsI64(x) ==
    LET ext == IF x < 0 THEN LimbMax ELSE 0
    IN  <<x % LimbBase, (x \div LimbBase) % LimbBase, ext, ext>>

\* The low 32 bits of a 64-bit pattern read as an i32 (two's complement).
LowI32(x) ==
    IF x[2] >= LimbBase \div 2
    THEN (x[2] - LimbBase) * LimbBase + x[1]
    ELSE x[2] * LimbBase + x[1]

\* `x as i32' for x : i64 or usize: keeps the low 32 bits.
I64AsI32(x) == LowI32(x)

(***************************************************************************)
(* The hash_ids crate (an external dependency): the Hashids algorithm.     *)
(* Characters are their code points.                                       *)
(***************************************************************************)
\* "abcdefghijklmnopqrstuvwxyzABCDEFGHIJKLMNOPQRSTUVWXYZ1234567890"
DEFAULT_ALPHABET ==
    <<97, 98, 99, 100, 101, 102, 103, 104, 105, 106, 107, 108, 109, 110, 111,
      112, 113, 114, 115, 116, 117, 118, 119, 120, 121, 122, 65, 66, 67, 68,
      69, 70, 71, 72, 73, 74, 75, 76, 77, 78, 79, 80, 81, 82, 83, 84, 85, 86,
      87, 88, 89, 90, 49, 50, 51, 52, 53, 54, 55, 56, 57, 48>>

\* "cfhistuCFHISTU"
DEFAULT_SEPS == <<99, 102, 104, 105, 115, 116, 117, 67, 70, 72, 73, 83, 84, 85>>

RECURSIVE ShuffleFrom(_, _, _, _, _)
\* One pass of the consistent shuffle from 0-based index i down to 1.
ShuffleFrom(a, salt, i, v, p) ==
    IF i < 1 THEN a
    ELSE LET vv == v % Len(salt)
             int == salt[vv + 1]
             pp == p + int
             j == (int + vv + pp) % i
         IN  ShuffleFrom([a EXCEPT ![i + 1] = a[j + 1], ![j + 1] = a[i + 1]],
                         salt, i - 1, vv + 1, pp)

ConsistentShuffle(a, salt) ==
    IF Len(salt) = 0 \/ Len(a) = 0 THEN a
    ELSE ShuffleFrom(a, salt, Len(a) - 1, 0, 0)

CeilDiv(a, b) == (a + b - 1) \div b

\* The guards are the first characters of the shuffled alphabet (of the seps
\* when the alphabet is tiny): one per 12 characters of the alphabet.
WithGuards(salt, min_length, alphabet, seps, guardCount) ==
    IF Len(alphabet) < 3
    THEN [salt |-> salt, min_length |-> min_length, alphabet |-> alphabet,
          guards |-> Take(seps, guardCount), seps |-> Drop(seps, guardCount)]
    ELSE [salt |-> salt, min_length |-> min_length,
          alphabet |-> Drop(alphabet, guardCount),
          guards |-> Take(alphabet, guardCount), seps |-> seps]

WithShuffledAlphabet(salt, min_length, alphabet, seps) ==
    WithGuards(salt, min_length, alphabet, seps, CeilDiv(Len(alphabet), 12))

\* How many characters the seps are short: they are topped up from the
\* alphabet when alphabet.len / seps.len > 3.5.
SepsShortfall(alphabet, seps) ==
    LET wanted == CeilDiv(Len(alphabet) * 2, 7)
    IN  IF (Len(seps) = 0 \/ Len(alphabet) * 2 > Len(seps) * 7) /\ wanted > Len(seps)
        THEN wanted - Len(seps)
        ELSE 0

WithSeps(salt, min_length, alphabet, seps, diff) ==
    WithShuffledAlphabet(salt, min_length,
                         ConsistentShuffle(Drop(alphabet, diff), salt),
                         seps \o Take(alphabet, diff))

HashIdsFrom(salt, min_length, alphabet, seps) ==
    WithSeps(salt, min_length, alphabet, seps, SepsShortfall(alphabet, seps))

\* HashIds::builder().with_salt(salt).with_min_length(min_length).finish()
HashIdsBuild(salt, min_length) ==
    HashIdsFrom(salt, min_length,
                SelectSeq(DEFAULT_ALPHABET, LAMBDA c : ~InSeq(c, DEFAULT_SEPS)),
                ConsistentShuffle(
                    SelectSeq(DEFAULT_SEPS, LAMBDA c : InSeq(c, DEFAULT_ALPHABET)), salt))

RECURSIVE Hash(_, _)
\* The digits of n in base Len(alphabet), most significant first (at least one).
Hash(n, alphabet) ==
    LET dm == U64DivMod(n, Len(alphabet))
    IN  IF U64IsZero(dm.quot) THEN <<alphabet[dm.rem + 1]>>
        ELSE Append(Hash(dm.quot, alphabet), alphabet[dm.rem + 1])

RECURSIVE UnhashFrom(_, _, _, _)
UnhashFrom(str, alphabet, k, acc) ==
    IF k > Len(str) THEN Some(acc)
    ELSE IF ~InSeq(str[k], alphabet) THEN None
    ELSE LET step == U64MulAdd(acc, Len(alphabet), IndexOf(str[k], alphabet) - 1)
         IN  IF step.overflow THEN None
             ELSE UnhashFrom(str, alphabet, k + 1, step.val)

\* The number a digit string stands for; None when a character is not a
\* digit of the alphabet or the number does not fit 64 bits.
Unhash(str, alphabet) ==
    IF Len(str) = 0 THEN None ELSE UnhashFrom(str, alphabet, 1, U64Zero)

RECURSIVE NumbersIdInt(_, _)
\* Sum over the 0-based index i of numbers[i] % (i + 100), from index k on.
NumbersIdInt(numbers, k) ==
    IF k > Len(numbers) THEN 0
    ELSE U64DivMod(numbers[k], (k - 1) + 100).rem + NumbersIdInt(numbers, k + 1)

\* The alphabet for the next number: reshuffled by lottery + salt + alphabet.
NextAlphabet(h, alphabet, lottery) ==
    ConsistentShuffle(alphabet, Take(<<lottery>> \o h.salt \o alphabet, Len(alphabet)))

\* The separator after the k-th number, none after the last one.
Separator(h, numbers, k, last) ==
    IF k < Len(numbers)
    THEN <<h.seps[(U64DivMod(numbers[k], last[1] + (k - 1)).rem % Len(h.seps)) + 1]>>
    ELSE <<>>

Joined(h, numbers, k, last, rest) ==
    [ret |-> last \o Separator(h, numbers, k, last) \o rest.ret, alphabet |-> rest.alphabet]

RECURSIVE EncodeNumbers(_, _, _, _, _)
EncodeNumber(h, numbers, k, shuffled, lottery) ==
    Joined(h, numbers, k, Hash(numbers[k], shuffled),
           EncodeNumbers(h, numbers, k + 1, shuffled, lottery))

\* The digits of numbers[k..], each under its own reshuffled alphabet, with
\* a separator between two numbers; returns the text and the last alphabet.
EncodeNumbers(h, numbers, k, alphabet, lottery) ==
    IF k > Len(numbers) THEN [ret |-> <<>>, alphabet |-> alphabet]
    ELSE EncodeNumber(h, numbers, k, NextAlphabet(h, alphabet, lottery), lottery)

\* A text longer than min_length keeps its middle.
Trimmed(grown, min_length) ==
    IF Len(grown) > min_length
    THEN SubSeq(grown, ((Len(grown) - min_length) \div 2) + 1,
                ((Len(grown) - min_length) \div 2) + min_length)
    ELSE grown

RECURSIVE PadToMinLength(_, _, _)
PadWith(ret, shuffled, min_length) ==
    PadToMinLength(
        Trimmed(Drop(shuffled, Len(shuffled) \div 2) \o ret
                    \o Take(shuffled, Len(shuffled) \div 2), min_length),
        shuffled, min_length)

\* A short text grows by halves of the reshuffled alphabet on both sides.
PadToMinLength(ret, alphabet, min_length) ==
    IF Len(ret) >= min_length THEN ret
    ELSE PadWith(ret, ConsistentShuffle(alphabet, alphabet), min_length)

PrefixGuarded(h, idInt, ret) ==
    IF Len(ret) < h.min_length
    THEN <<h.guards[((idInt + ret[1]) % Len(h.guards)) + 1]>> \o ret
    ELSE ret

SuffixGuarded(h, idInt, ret) ==
    IF Len(ret) < h.min_length
    THEN Append(ret, h.guards[((idInt + ret[3]) % Len(h.guards)) + 1])
    ELSE ret

Padded(h, idInt, lottery, body) ==
    PadToMinLength(
        SuffixGuarded(h, idInt, PrefixGuarded(h, idInt, <<lottery>> \o body.ret)),
        body.alphabet, h.min_length)

EncodeWithLottery(h, numbers, idInt, lottery) ==
    Padded(h, idInt, lottery, EncodeNumbers(h, numbers, 1, h.alphabet, lottery))

EncodeWithIdInt(h, numbers, idInt) ==
    EncodeWithLottery(h, numbers, idInt, h.alphabet[(idInt % Len(h.alphabet)) + 1])

\* HashIds::encode(&[u64]) -> String
encode(h, numbers) ==
    IF Len(numbers) = 0 THEN <<>>
    ELSE EncodeWithIdInt(h, numbers, NumbersIdInt(numbers, 1))

RECURSIVE SplitOn(_, _)
\* The pieces of s between the characters of delims.
SplitOn(s, delims) ==
    IF \A k \in 1..Len(s) : ~InSeq(s[k], delims) THEN <<s>>
    ELSE LET at == CHOOSE k \in 1..Len(s) :
                       InSeq(s[k], delims) /\ \A m \in 1..(k - 1) : ~InSeq(s[m], delims)
         IN  <<SubSeq(s, 1, at - 1)>> \o SplitOn(Drop(s, at), delims)

Both(n, rest) ==
    IF IsSome(n) /\ IsSome(rest) THEN Some(<<n.val>> \o rest.val) ELSE None

RECURSIVE DecodeParts(_, _, _, _, _)
DecodePart(h, parts, k, shuffled, lottery) ==
    Both(Unhash(parts[k], shuffled), DecodeParts(h, parts, k + 1, shuffled, lottery))

\* The numbers of the digit strings parts[k..].
DecodeParts(h, parts, k, alphabet, lottery) ==
    IF k > Len(parts) THEN Some(<<>>)
    ELSE DecodePart(h, parts, k, NextAlphabet(h, alphabet, lottery), lottery)

\* The numbers count only if encoding them gives the token back.
Verified(h, id, nums) ==
    IF IsSome(nums) /\ encode(h, nums.val) = id THEN nums ELSE None

DecodeBreakdown(h, id, breakdown) ==
    IF Len(breakdown) = 0 THEN None
    ELSE Verified(h, id, DecodeParts(h, SplitOn(Drop(breakdown, 1), h.seps), 1,
                                     h.alphabet, breakdown[1]))

\* The part of a token between its guards.
Breakdown(byGuards) ==
    byGuards[IF Len(byGuards) = 3 \/ Len(byGuards) = 2 THEN 2 ELSE 1]

\* HashIds::decode(&str) -> Option<Vec<u64>>
decode(h, id) ==
    IF Len(id) = 0 THEN None
    ELSE DecodeBreakdown(h, id, Breakdown(SplitOn(id, h.guards)))

(***************************************************************************)
(* dao.rs: the identifier codec.                                           *)
(***************************************************************************)
\* "tabby-id-serializer"
HASHER_SALT ==
    <<116, 97, 98, 98, 121, 45, 105, 100, 45, 115, 101, 114, 105, 97, 108, 105,
      122, 101, 114>>

HASHER_MIN_LENGTH == 6

\* lazy_static! { static ref HASHER: HashIds = ... }
HASHER == HashIdsBuild(HASHER_SALT, HASHER_MIN_LENGTH)

InvalidID == "CoreError::InvalidID"

\* juniper::ID, a newtype over String: ID::new, Deref<Target = str>, Display.
ID_new(s) == [inner |-> s]

ID_deref(id) == id.inner

ID_to_string(id) == id.inner

\* Option::and_then, Option::map, Option::ok_or, <[T]>::first
ok_or(o, e) == IF IsSome(o) THEN Ok(o.val) ELSE Err(e)

first(v) == IF Len(v) = 0 THEN None ELSE Some(v[1])

\* .map(|i| *i as i64)
map_as_i64(o) == IF IsSome(o) THEN Some(U64AsI64(o.val)) ELSE None

\* .and_then(|x| x.first().map(|i| *i as i64))
and_then_first(o) == IF IsSome(o) THEN map_as_i64(first(o.val)) ELSE None

\* impl AsRowid for juniper::ID
as_rowid(self) == ok_or(and_then_first(decode(HASHER, ID_deref(self))), InvalidID)

\* A plausible slip: the row id narrowed to 32 bits before it is encoded.
as_id_narrowed(self) == ID_new(encode(HASHER, <<<<self[1], self[2], 0, 0>>>>))

\* impl AsID for i64
as_id(self) == ID_new(encode(HASHER, <<I64AsU64(self)>>))

\* impl AsID for i32
as_id_i32(self) == as_id(I32AsI64(self))

(***************************************************************************)
(* dao.rs: trait DbEnum.  A variant is its Rust path, a column value is a  *)
(* string, and the message of an anyhow error is its sequence of words.    *)
(***************************************************************************)
anyhow(words) == [anyhow |-> words]

\* "{s} is not a valid value for <name>"
NotAValidValueFor(s, name) ==
    anyhow(<<s, "is", "not", "a", "valid", "value", "for", name>>)

EventKind_as_enum_str(self) ==
    CASE self = "EventKind::Completion" -> "completion"
      [] self = "EventKind::ChatCompletion" -> "chat_completion"
      [] self = "EventKind::Select" -> "select"
      [] self = "EventKind::View" -> "view"
      [] self = "EventKind::Dismiss" -> "dismiss"

EventKind_from_enum_str(s) ==
    CASE s = "completion" -> Ok("EventKind::Completion")
      [] s = "chat_completion" -> Ok("EventKind::ChatCompletion")
      [] s = "select" -> Ok("EventKind::Select")
      [] s = "view" -> Ok("EventKind::View")
      [] s = "dismiss" -> Ok("EventKind::Dismiss")
      [] OTHER -> Err(NotAValidValueFor(s, "EventKind"))

IntegrationKind_as_enum_str(self) ==
    CASE self = "IntegrationKind::Github" -> "github"
      [] self = "IntegrationKind::Gitlab" -> "gitlab"
      [] self = "IntegrationKind::GithubSelfHosted" -> "github_self_hosted"
      [] self = "IntegrationKind::GitlabSelfHosted" -> "gitlab_self_hosted"

IntegrationKind_from_enum_str(s) ==
    CASE s = "github" -> Ok("IntegrationKind::Github")
      [] s = "gitlab" -> Ok("IntegrationKind::Gitlab")
      [] s = "github_self_hosted" -> Ok("IntegrationKind::GithubSelfHosted")
      [] s = "gitlab_self_hosted" -> Ok("IntegrationKind::GitlabSelfHosted")
      [] OTHER -> Err(NotAValidValueFor(s, "ProviderKind"))

Encryption_as_enum_str(self) ==
    CASE self = "Encryption::StartTls" -> "starttls"
      [] self = "Encryption::SslTls" -> "ssltls"
      [] self = "Encryption::None" -> "none"

Encryption_from_enum_str(s) ==
    CASE s = "starttls" -> Ok("Encryption::StartTls")
      [] s = "ssltls" -> Ok("Encryption::SslTls")
      [] s = "none" -> Ok("Encryption::None")
      [] OTHER -> Err(NotAValidValueFor(s, "Encryption"))

\* A plausible slip: a copied match arm left with the string of its neighbour.
OAuthProvider_as_enum_str_copied(self) ==
    CASE self = "OAuthProvider::Google" -> "github"
      [] self = "OAuthProvider::Github" -> "github"
      [] self = "OAuthProvider::Gitlab" -> "gitlab"

OAuthProvider_as_enum_str(self) ==
    CASE self = "OAuthProvider::Google" -> "google"
      [] self = "OAuthProvider::Github" -> "github"
      [] self = "OAuthProvider::Gitlab" -> "gitlab"

OAuthProvider_from_enum_str(s) ==
    CASE s = "github" -> Ok("OAuthProvider::Github")
      [] s = "google" -> Ok("OAuthProvider::Google")
      [] s = "gitlab" -> Ok("OAuthProvider::Gitlab")
      [] OTHER -> Err(anyhow(<<"Invalid", "OAuth", "credential", "type">>))

LdapEncryptionKind_as_enum_str(self) ==
    CASE self = "LdapEncryptionKind::None" -> "none"
      [] self = "LdapEncryptionKind::StartTLS" -> "starttls"
      [] self = "LdapEncryptionKind::LDAPS" -> "ldaps"

LdapEncryptionKind_from_enum_str(s) ==
    CASE s = "none" -> Ok("LdapEncryptionKind::None")
      [] s = "starttls" -> Ok("LdapEncryptionKind::StartTLS")
      [] s = "ldaps" -> Ok("LdapEncryptionKind::LDAPS")
      [] OTHER -> Err(anyhow(<<"Invalid", "Ldap", "encryption", "kind">>))

AuthMethod_as_enum_str(self) ==
    CASE self = "AuthMethod::None" -> "none"
      [] self = "AuthMethod::Plain" -> "plain"
      [] self = "AuthMethod::Login" -> "login"

\* A plausible slip: the column value matched without regard to case.
AuthMethod_from_enum_str_caseless(s) ==
    CASE s \in {"none", "None", "NONE"} -> Ok("AuthMethod::None")
      [] s \in {"plain", "Plain", "PLAIN"} -> Ok("AuthMethod::Plain")
      [] s \in {"login", "Login", "LOGIN"} -> Ok("AuthMethod::Login")
      [] OTHER -> Err(NotAValidValueFor(s, "AuthMethod"))

AuthMethod_from_enum_str(s) ==
    CASE s = "none" -> Ok("AuthMethod::None")
      [] s = "plain" -> Ok("AuthMethod::Plain")
      [] s = "login" -> Ok("AuthMethod::Login")
      [] OTHER -> Err(NotAValidValueFor(s, "AuthMethod"))

Role_as_enum_str(self) ==
    CASE self = "thread::Role::Assistant" -> "assistant"
      [] self = "thread::Role::User" -> "user"

Role_from_enum_str(s) ==
    CASE s = "assistant" -> Ok("thread::Role::Assistant")
      [] s = "user" -> Ok("thread::Role::User")
      [] OTHER -> Err(NotAValidValueFor(s, "thread::Role"))

NotificationRecipient_as_enum_str(self) ==
    CASE self = "NotificationRecipient::Admin" -> "admin"
      [] self = "NotificationRecipient::AllUser" -> "all_user"

NotificationRecipient_from_enum_str(s) ==
    CASE s = "admin" -> Ok("NotificationRecipient::Admin")
      [] s = "all_user" -> Ok("NotificationRecipient::AllUser")
      [] OTHER -> Err(NotAValidValueFor(s, "NotificationKind"))

\* The types that implement DbEnum.
DbEnumKinds ==
    {"EventKind", "IntegrationKind", "Encryption", "OAuthProvider",
     "LdapEncryptionKind", "AuthMethod", "thread::Role", "NotificationRecipient"}

\* The variants of each type: the arms of its (exhaustive) as_enum_str match.
Variants(kind) ==
    CASE kind = "EventKind" ->
             {"EventKind::Completion", "EventKind::ChatCompletion", "EventKind::Select",
              "EventKind::View", "EventKind::Dismiss"}
      [] kind = "IntegrationKind" ->
             {"IntegrationKind::Github", "IntegrationKind::Gitlab",
              "IntegrationKind::GithubSelfHosted", "IntegrationKind::GitlabSelfHosted"}
      [] kind = "Encryption" ->
             {"Encryption::StartTls", "Encryption::SslTls", "Encryption::None"}
      [] kind = "OAuthProvider" ->
             {"OAuthProvider::Google", "OAuthProvider::Github", "OAuthProvider::Gitlab"}
      [] kind = "LdapEncryptionKind" ->
             {"LdapEncryptionKind::None", "LdapEncryptionKind::StartTLS",
              "LdapEncryptionKind::LDAPS"}
      [] kind = "AuthMethod" -> {"AuthMethod::None", "AuthMethod::Plain", "AuthMethod::Login"}
      [] kind = "thread::Role" -> {"thread::Role::Assistant", "thread::Role::User"}
      [] kind = "NotificationRecipient" ->
             {"NotificationRecipient::Admin", "NotificationRecipient::AllUser"}

\* <E as DbEnum>::as_enum_str(&e)
as_enum_str(kind, e) ==
    CASE kind = "EventKind" -> EventKind_as_enum_str(e)
      [] kind = "IntegrationKind" -> IntegrationKind_as_enum_str(e)
      [] kind = "Encryption" -> Encryption_as_enum_str(e)
      [] kind = "OAuthProvider" -> OAuthProvider_as_enum_str(e)
      [] kind = "LdapEncryptionKind" -> LdapEncryptionKind_as_enum_str(e)
      [] kind = "AuthMethod" -> AuthMethod_as_enum_str(e)
      [] kind = "thread::Role" -> Role_as_enum_str(e)
      [] kind = "NotificationRecipient" -> NotificationRecipient_as_enum_str(e)

\* <E as DbEnum>::from_enum_str(s)
from_enum_str(kind, s) ==
    CASE kind = "EventKind" -> EventKind_from_enum_str(s)
      [] kind = "IntegrationKind" -> IntegrationKind_from_enum_str(s)
      [] kind = "Encryption" -> Encryption_from_enum_str(s)
      [] kind = "OAuthProvider" -> OAuthProvider_from_enum_str(s)
      [] kind = "LdapEncryptionKind" -> LdapEncryptionKind_from_enum_str(s)
      [] kind = "AuthMethod" -> AuthMethod_from_enum_str(s)
      [] kind = "thread::Role" -> Role_from_enum_str(s)
      [] kind = "NotificationRecipient" -> NotificationRecipient_from_enum_str(s)

(***************************************************************************)
(* dao.rs: record translators.                                             *)
(***************************************************************************)
\* A plausible slip: the synced flag tested before the error.
status_synced_first(value) ==
    IF value.synced THEN "IntegrationStatus::Ready"
    ELSE IF IsSome(value.error) THEN "IntegrationStatus::Failed"
    ELSE "IntegrationStatus::Pending"

\* let status = if value.synced && value.error.is_none() { .. }
status(value) ==
    IF value.synced /\ ~IsSome(value.error) THEN "IntegrationStatus::Ready"
    ELSE IF IsSome(value.error) THEN "IntegrationStatus::Failed"
    ELSE "IntegrationStatus::Pending"

\* Ok(Self { .. }) once `IntegrationKind::from_enum_str(&value.kind)?' is through.
IntegrationOf(value, st, kind) ==
    IF IsErr(kind) THEN kind
    ELSE Ok([id |-> as_id(value.id),
             kind |-> kind.val,
             display_name |-> value.display_name,
             access_token |-> value.access_token,
             api_base |-> value.api_base,
             created_at |-> value.created_at,
             updated_at |-> value.updated_at,
             status |-> st,
             message |-> value.error])

\* impl TryFrom<IntegrationDAO> for Integration
Integration_try_from(value) ==
    IntegrationOf(value, status(value), IntegrationKind_from_enum_str(value.kind))

\* core::str::validations: the width of a character by its first byte.
utf8_char_width(b) ==
    IF b < 128 THEN 1
    ELSE IF b >= 194 /\ b <= 223 THEN 2
    ELSE IF b >= 224 /\ b <= 239 THEN 3
    ELSE IF b >= 240 /\ b <= 244 THEN 4
    ELSE 0

IsContinuation(b) == b >= 128 /\ b <= 191

\* Whether a well-formed character of width w starts at v[i].
ValidCharAt(v, i, w) ==
    CASE w = 1 -> TRUE
      [] w = 2 -> i + 1 <= Len(v) /\ IsContinuation(v[i + 1])
      [] w = 3 ->
             /\ i + 2 <= Len(v)
             /\ \/ v[i] = 224 /\ v[i + 1] >= 160 /\ v[i + 1] <= 191
                \/ v[i] >= 225 /\ v[i] <= 236 /\ IsContinuation(v[i + 1])
                \/ v[i] = 237 /\ v[i + 1] >= 128 /\ v[i + 1] <= 159
                \/ v[i] >= 238 /\ v[i] <= 239 /\ IsContinuation(v[i + 1])
             /\ IsContinuation(v[i + 2])
      [] w = 4 ->
             /\ i + 3 <= Len(v)
             /\ \/ v[i] = 240 /\ v[i + 1] >= 144 /\ v[i + 1] <= 191
                \/ v[i] >= 241 /\ v[i] <= 243 /\ IsContinuation(v[i + 1])
                \/ v[i] = 244 /\ v[i + 1] >= 128 /\ v[i + 1] <= 143
             /\ IsContinuation(v[i + 2])
             /\ IsContinuation(v[i + 3])
      [] OTHER -> FALSE

RECURSIVE run_utf8_validation(_, _)
\* core::str::validations::run_utf8_validation, from index i on.
run_utf8_validation(v, i) ==
    IF i > Len(v) THEN TRUE
    ELSE /\ ValidCharAt(v, i, utf8_char_width(v[i]))
         /\ run_utf8_validation(v, i + utf8_char_width(v[i]))

\* A String: its UTF-8 bytes.
String(bytes) == [utf8 |-> bytes]

RECURSIVE Lossy(_, _)
\* The bytes with every byte that starts no well-formed character replaced
\* by U+FFFD (EF BF BD).
Lossy(v, i) ==
    IF i > Len(v) THEN <<>>
    ELSE IF ValidCharAt(v, i, utf8_char_width(v[i]))
         THEN SubSeq(v, i, i + utf8_char_width(v[i]) - 1)
                  \o Lossy(v, i + utf8_char_width(v[i]))
         ELSE <<239, 191, 189>> \o Lossy(v, i + 1)

\* A plausible slip: String::from_utf8_lossy in place of String::from_utf8.
String_from_utf8_lossy(vec) == Ok(String(Lossy(vec, 1)))

\* String::from_utf8(vec) -> Result<String, FromUtf8Error>
String_from_utf8(vec) ==
    IF run_utf8_validation(vec, 1) THEN Ok(String(vec)) ELSE Err("FromUtf8Error")

\* Ok(Self { .. }) once both `?' are through; the kind's `?' comes first.
UserEventOf(value, kind, payload) ==
    IF IsErr(kind) THEN kind
    ELSE IF IsErr(payload) THEN Err(anyhow(<<payload.err>>))
    ELSE Ok([id |-> as_id(value.id),
             user_id |-> as_id(value.user_id),
             kind |-> kind.val,
             created_at |-> value.created_at,
             payload |-> payload.val])

\* impl TryFrom<UserEventDAO> for UserEvent
UserEvent_try_from(value) ==
    UserEventOf(value, EventKind_from_enum_str(value.kind), String_from_utf8(value.payload))

\* ServerSettingDAO::security_allowed_register_domain_list(&self): the
\* domains of the row's allowed register domain list, none when the list
\* is absent.  The stored list is kept as the sequence of its domains.
security_allowed_register_domain_list(value) ==
    IF IsSome(value.security_allowed_register_domain_list)
    THEN value.security_allowed_register_domain_list.val
    ELSE <<>>

\* A plausible slip: the two adjacent flags of the security view exchanged.
SecuritySetting_from_flags_swapped(value) ==
    [allowed_register_domain_list |-> security_allowed_register_domain_list(value),
     disable_client_side_telemetry |-> value.security_disable_password_login,
     disable_password_login |-> value.security_disable_client_side_telemetry]

\* impl From<ServerSettingDAO> for SecuritySetting
SecuritySetting_from(value) ==
    [allowed_register_domain_list |-> security_allowed_register_domain_list(value),
     disable_client_side_telemetry |-> value.security_disable_client_side_telemetry,
     disable_password_login |-> value.security_disable_password_login]

\* impl From<ServerSettingDAO> for NetworkSetting
NetworkSetting_from(value) == [external_url |-> value.network_external_url]

(***************************************************************************)
(* dao.rs: attachments.  A document is a record tagged with its variant,   *)
(* in one of three shapes: storage (tabby_db::AttachmentDoc), thread       *)
(* (thread::MessageAttachmentDoc) and retrieval (retrieval::AttachmentDoc).*)
(* A usize is a 64-bit pattern, an i32 an integer.                         *)
(***************************************************************************)
\* .map(|x| x as i32)
map_as_i32(o) == IF IsSome(o) THEN Some(I64AsI32(o.val)) ELSE None

\* .map(|x| x as usize)
map_as_usize(o) == IF IsSome(o) THEN Some(I32AsI64(o.val)) ELSE None

\* impl From<AttachmentCode> for thread::MessageAttachmentCode
MessageAttachmentCode_from(value) ==
    [git_url |-> value.git_url,
     commit |-> value.commit,
     filepath |-> value.filepath,
     language |-> value.language,
     content |-> value.content,
     start_line |-> map_as_i32(value.start_line)]

\* impl From<&thread::MessageAttachmentCode> for AttachmentCode
AttachmentCode_from_thread(val) ==
    [git_url |-> val.git_url,
     commit |-> val.commit,
     filepath |-> val.filepath,
     language |-> val.language,
     content |-> val.content,
     start_line |-> map_as_usize(val.start_line)]

\* impl From<AttachmentClientCode> for thread::MessageAttachmentClientCode
MessageAttachmentClientCode_from(value) ==
    [filepath |-> value.filepath,
     content |-> value.content,
     start_line |-> map_as_i32(value.start_line)]

\* impl From<&thread::MessageAttachmentCodeInput> for AttachmentClientCode
AttachmentClientCode_from_input(val) ==
    [filepath |-> val.filepath,
     content |-> val.content,
     start_line |-> map_as_usize(val.start_line)]

\* impl From<&retrieval::AttachmentCode> for AttachmentCode
AttachmentCode_from_retrieval(value) ==
    [git_url |-> value.git_url,
     commit |-> value.commit,
     filepath |-> value.filepath,
     language |-> value.language,
     content |-> value.content,
     start_line |-> map_as_usize(value.start_line)]

\* impl From<&AttachmentCode> for retrieval::AttachmentCode
retrieval_AttachmentCode_from(value) ==
    [git_url |-> value.git_url,
     commit |-> value.commit,
     filepath |-> value.filepath,
     language |-> value.language,
     content |-> value.content,
     start_line |-> map_as_i32(value.start_line)]

\* interface::UserValue, an enum of one variant.
UserSecured(user) == [variant |-> "UserSecured", user |-> user]

\* |x| match x { UserValue::UserSecured(user) => user.id.to_string() }
author_user_id_of(x) ==
    CASE x.variant = "UserSecured" -> ID_to_string(x.user.id)

\* author.as_ref().map(|x| match x { .. })
author_user_id(o) == IF IsSome(o) THEN Some(author_user_id_of(o.val)) ELSE None

\* pub fn from_thread_message_attachment_document(doc, author)
from_thread_message_attachment_document(doc, author) ==
    CASE doc.variant = "Web" ->
             [variant |-> "Web", title |-> doc.title, link |-> doc.link,
              content |-> doc.content]
      [] doc.variant = "Issue" ->
             [variant |-> "Issue", title |-> doc.title, link |-> doc.link,
              author |-> author, body |-> doc.body, closed |-> doc.closed]
      [] doc.variant = "Pull" ->
             [variant |-> "Pull", title |-> doc.title, link |-> doc.link,
              author |-> author, body |-> doc.body, patch |-> doc.diff,
              merged |-> doc.merged]
      [] doc.variant = "Commit" ->
             [variant |-> "Commit", sha |-> doc.sha, message |-> doc.message,
              author |-> author, author_at |-> doc.author_at]
      [] doc.variant = "Page" ->
             [variant |-> "Page", link |-> doc.page_link, title |-> doc.title,
              content |-> doc.content]
      [] doc.variant = "Ingested" ->
             [variant |-> "Ingested", id |-> doc.id, link |-> doc.link,
              title |-> doc.title, body |-> doc.body]

\* A plausible slip: the pull request's diff filled from its body.
AttachmentDoc_from_thread_diff_from_body(val) ==
    CASE val.variant = "Web" ->
             [variant |-> "Web", title |-> val.title, link |-> val.link,
              content |-> val.content]
      [] val.variant = "Issue" ->
             [variant |-> "Issue", title |-> val.title, link |-> val.link,
              author_user_id |-> author_user_id(val.author),
              body |-> val.body, closed |-> val.closed]
      [] val.variant = "Pull" ->
             [variant |-> "Pull", title |-> val.title, link |-> val.link,
              author_user_id |-> author_user_id(val.author),
              body |-> val.body, diff |-> val.body, merged |-> val.merged]
      [] val.variant = "Commit" ->
             [variant |-> "Commit", sha |-> val.sha, message |-> val.message,
              author_user_id |-> author_user_id(val.author),
              author_at |-> val.author_at]
      [] val.variant = "Page" ->
             [variant |-> "Page", page_link |-> val.link, title |-> val.title,
              content |-> val.content]
      [] val.variant = "Ingested" ->
             [variant |-> "Ingested", id |-> val.id, link |-> val.link,
              title |-> val.title, body |-> val.body]

\* impl From<&thread::MessageAttachmentDoc> for AttachmentDoc
AttachmentDoc_from_thread(val) ==
    CASE val.variant = "Web" ->
             [variant |-> "Web", title |-> val.title, link |-> val.link,
              content |-> val.content]
      [] val.variant = "Issue" ->
             [variant |-> "Issue", title |-> val.title, link |-> val.link,
              author_user_id |-> author_user_id(val.author),
              body |-> val.body, closed |-> val.closed]
      [] val.variant = "Pull" ->
             [variant |-> "Pull", title |-> val.title, link |-> val.link,
              author_user_id |-> author_user_id(val.author),
              body |-> val.body, diff |-> val.patch, merged |-> val.merged]
      [] val.variant = "Commit" ->
             [variant |-> "Commit", sha |-> val.sha, message |-> val.message,
              author_user_id |-> author_user_id(val.author),
              author_at |-> val.author_at]
      [] val.variant = "Page" ->
             [variant |-> "Page", page_link |-> val.link, title |-> val.title,
              content |-> val.content]
      [] val.variant = "Ingested" ->
             [variant |-> "Ingested", id |-> val.id, link |-> val.link,
              title |-> val.title, body |-> val.body]

\* A plausible slip: the ingested document's link filled from its id.
AttachmentDoc_from_retrieval_link_from_id(value) ==
    CASE value.variant = "Web" ->
             [variant |-> "Web", title |-> value.title, link |-> value.link,
              content |-> value.content]
      [] value.variant = "Issue" ->
             [variant |-> "Issue", title |-> value.title, link |-> value.link,
              author_user_id |-> author_user_id(value.author),
              body |-> value.body, closed |-> value.closed]
      [] value.variant = "Pull" ->
             [variant |-> "Pull", title |-> value.title, link |-> value.link,
              author_user_id |-> author_user_id(value.author),
              body |-> value.body, diff |-> value.diff, merged |-> value.merged]
      [] value.variant = "Commit" ->
             [variant |-> "Commit", sha |-> value.sha, message |-> value.message,
              author_user_id |-> author_user_id(value.author),
              author_at |-> value.author_at]
      [] value.variant = "Page" ->
             [variant |-> "Page", page_link |-> value.link, title |-> value.title,
              content |-> value.content]
      [] value.variant = "Ingested" ->
             [variant |-> "Ingested", id |-> value.id, link |-> value.id,
              title |-> value.title, body |-> value.body]

\* impl From<&retrieval::AttachmentDoc> for AttachmentDoc
AttachmentDoc_from_retrieval(value) ==
    CASE value.variant = "Web" ->
             [variant |-> "Web", title |-> value.title, link |-> value.link,
              content |-> value.content]
      [] value.variant = "Issue" ->
             [variant |-> "Issue", title |-> value.title, link |-> value.link,
              author_user_id |-> author_user_id(value.author),
              body |-> value.body, closed |-> value.closed]
      [] value.variant = "Pull" ->
             [variant |-> "Pull", title |-> value.title, link |-> value.link,
              author_user_id |-> author_user_id(value.author),
              body |-> value.body, diff |-> value.diff, merged |-> value.merged]
      [] value.variant = "Commit" ->
             [variant |-> "Commit", sha |-> value.sha, message |-> value.message,
              author_user_id |-> author_user_id(value.author),
              author_at |-> value.author_at]
      [] value.variant = "Page" ->
             [variant |-> "Page", page_link |-> value.link, title |-> value.title,
              content |-> value.content]
      [] value.variant = "Ingested" ->
             [variant |-> "Ingested", id |-> value.id, link |-> value.link,
              title |-> value.title, body |-> value.body]

(***************************************************************************)
(* dao.rs: the other record translators that emit identifiers.             *)
(***************************************************************************)
\* impl From<InvitationDAO> for auth::Invitation
Invitation_from(val) ==
    [id |-> as_id_i32(I64AsI32(val.id)),
     email |-> val.email,
     code |-> val.code,
     created_at |-> val.created_at]

\* impl From<JobRunDAO> for job::JobRun
JobRun_from(run) ==
    [id |-> as_id(run.id),
     job |-> run.name,
     created_at |-> run.created_at,
     updated_at |-> run.updated_at,
     started_at |-> run.started_at,
     finished_at |-> run.finished_at,
     exit_code |-> map_as_i32(run.exit_code),
     stdout |-> run.stdout]

\* impl From<NotificationDAO> for Notification
Notification_from(value) ==
    [id |-> as_id(value.id),
     content |-> value.content,
     read |-> value.read,
     created_at |-> value.created_at,
     updated_at |-> value.updated_at]

\* impl From<ThreadDAO> for thread::Thread
Thread_from(value) ==
    [id |-> as_id(value.id),
     user_id |-> as_id(value.user_id),
     is_ephemeral |-> value.is_ephemeral,
     created_at |-> value.created_at,
     updated_at |-> value.updated_at]

\* impl From<PageDAO> for page::Page
Page_from(value) ==
    [id |-> as_id(value.id),
     author_id |-> as_id(value.author_id),
     title |-> value.title,
     code_source_id |-> value.code_source_id,
     content |-> value.content,
     created_at |-> value.created_at,
     updated_at |-> value.updated_at]

(***************************************************************************)
(* dao.rs: the lazily built HASHER.  lazy_static keeps a cell for the      *)
(* value and a std::sync::Once; a use of HASHER goes through              *)
(* Once::call_once, whose first caller runs the initialiser while the      *)
(* others wait for it to complete.                                         *)
(***************************************************************************)
\* A guard that does not claim the construction: whoever finds the value
\* not yet built builds it.
call_once_unclaimed(state) ==
    CASE state = "INCOMPLETE" -> [once |-> "INCOMPLETE", pc |-> "builder"]
      [] state = "RUNNING" -> [once |-> "RUNNING", pc |-> "wait"]
      [] state = "COMPLETE" -> [once |-> "COMPLETE", pc |-> "read"]

\* Once::call_once as a caller enters it: the state it leaves and where
\* the caller goes.
call_once(state) ==
    CASE state = "INCOMPLETE" -> [once |-> "RUNNING", pc |-> "builder"]
      [] state = "RUNNING" -> [once |-> "RUNNING", pc |-> "wait"]
      [] state = "COMPLETE" -> [once |-> "COMPLETE", pc |-> "read"]

\* HashIds::builder()
builder == [salt |-> <<>>, min_length |-> 0]

\* .with_salt("tabby-id-serializer")
with_salt(b) == [b EXCEPT !.salt = HASHER_SALT]

\* .with_min_length(6)
with_min_length(b) == [b EXCEPT !.min_length = HASHER_MIN_LENGTH]

\* .finish()
finish(b) == HashIdsBuild(b.salt, b.min_length)

\* The identifier of row 1, "E16n1q".
ID_OF_ONE == <<69, 49, 54, 110, 49, 113>>

\* What a use of the instance a thread got from HASHER returns: the
\* encoding of row id 1, or the decoding of its identifier; unreachable!()
\* when the cell was empty.
use(op, seen) ==
    IF seen = None THEN [panicked |-> TRUE]
    ELSE IF op = "encode"
         THEN [panicked |-> FALSE, returned |-> encode(seen.val, <<U64FromNat(1)>>)]
    ELSE [panicked |-> FALSE, returned |-> decode(seen.val, ID_OF_ONE)]

(***************************************************************************)
(* Inputs.                                                                 *)
(***************************************************************************)
MaxRowId == 24

\* Limb values at the edges of each 16-bit limb.
EdgeLimbs == {0, 1, LimbBase \div 2, LimbMax}

\* i64 row ids: the small ones, and every pattern of edge limbs (among them
\* i32::MAX, i32::MAX + 1, u32::MAX + 1, i64::MAX, -1, i64::MIN).
RowIds ==
    {U64FromNat(k) : k \in 0..MaxRowId}
        \cup {<<a, b, c, d>> : a \in EdgeLimbs, b \in EdgeLimbs, c \in EdgeLimbs, d \in EdgeLimbs}

I32Max == 2147483647

I32Min == (-2147483647) - 1

\* i32 row ids.
RowIdsI32 == (-3..MaxRowId) \cup {I32Max, I32Min, LimbBase, -LimbBase, I32Max - 1, I32Min + 1}

\* "this is my salt"
FOREIGN_SALT ==
    <<116, 104, 105, 115, 32, 105, 115, 32, 109, 121, 32, 115, 97, 108, 116>>

\* Tokens of codecs configured otherwise: another salt, another minimum length.
ForeignTokens ==
    {encode(HashIdsBuild(FOREIGN_SALT, HASHER_MIN_LENGTH), <<U64FromNat(k)>>) : k \in 0..MaxRowId}
        \cup {encode(HashIdsBuild(HASHER_SALT, 0), <<U64FromNat(k)>>) : k \in 0..MaxRowId}
        \cup {encode(HashIdsBuild(<<>>, HASHER_MIN_LENGTH), <<U64FromNat(k)>>) : k \in 0..MaxRowId}

\* Tokens of the active codec that carry two or three numbers.
MultiNumberTokens ==
    {encode(HASHER, <<U64FromNat(a), U64FromNat(b)>>) : a \in 0..3, b \in 0..3}
        \cup {encode(HASHER, <<U64FromNat(a), U64FromNat(b), U64FromNat(a)>>) : a \in 0..1, b \in 0..1}

\* Issued tokens with one character replaced, removed or added.
DamagedTokens ==
    UNION {LET t == encode(HASHER, <<U64FromNat(k)>>)
           IN  {[t EXCEPT ![p] = c] : p \in 1..Len(t), c \in {97, 86, 71, 70, 33}}
                   \cup {Take(t, Len(t) - 1), Append(t, 97), Append(t, 71), <<86>> \o t}
           : k \in 0..2}

\* "", " ", "1", "a", "!!!!!!", "abc def", "E16n1Q", "e16n1q", "-1", "G", "F", "GG"
MalformedTokens ==
    {<<>>, <<32>>, <<49>>, <<97>>, <<33, 33, 33, 33, 33, 33>>,
     <<97, 98, 99, 32, 100, 101, 102>>, <<69, 49, 54, 110, 49, 81>>,
     <<101, 49, 54, 110, 49, 113>>, <<45, 49>>, <<71>>, <<70>>, <<71, 71>>}

\* The strings a client may hand in as an identifier.
GivenTokens == ForeignTokens \cup MultiNumberTokens \cup DamagedTokens \cup MalformedTokens

\* What a string-typed enum column may hold: every string some as_enum_str
\* writes, and strings that differ from them in case, spelling or spacing.
StoredStrings ==
    UNION {{as_enum_str(kind, e) : e \in Variants(kind)} : kind \in DbEnumKinds}
        \cup {"", " ", "Completion", "COMPLETION", "chat-completion", "chatcompletion",
              "ChatCompletion", "Select", "View", "Dismiss", "GitHub", "GITHUB", "Github",
              "Gitlab", "GitLab", "github_self-hosted", "GithubSelfHosted",
              "github-self-hosted", "Google", "GOOGLE", "bitbucket", "None", "NONE",
              "StartTls", "STARTTLS", "start_tls", "SslTls", "ssl_tls", "SSLTLS", "tls",
              "ldap", "LDAPS", "Ldaps", "Plain", "PLAIN", "Login", "LOGIN", "Assistant",
              "ASSISTANT", "User", "USER", "system", "Admin", "ADMIN", "AllUser",
              "all_users", "alluser", "all-user", "github ", " github", "unknown", "0"}

\* Rows of the integrations table.
IntegrationDAOs ==
    [id : {U64FromNat(1), <<7, 0, 1, 0>>},
     kind : {"github", "gitlab_self_hosted", "GitHub", ""},
     display_name : {"display_name"},
     access_token : {"access_token"},
     api_base : {None, Some("api_base")},
     created_at : {1},
     updated_at : {2},
     synced : BOOLEAN,
     error : {None, Some("error")}]

MaxPayloadLen == 2

\* Bytes at the edges of the UTF-8 byte classes: 'c', DEL, continuation
\* bytes, lead bytes of each width, bytes that are never valid.
ByteSamples == {99, 127, 128, 144, 160, 191, 192, 194, 224, 237, 239, 240, 244, 255}

RECURSIVE BytesUpTo(_)
BytesUpTo(n) ==
    IF n = 0 THEN {<<>>}
    ELSE BytesUpTo(n - 1)
             \cup {Append(v, b) : v \in {w \in BytesUpTo(n - 1) : Len(w) = n - 1},
                                  b \in ByteSamples}

\* Stored payloads: every short sequence of the sample bytes, and "click",
\* "é", "€", an emoji, U+FFFD, and sequences that are overlong, a surrogate,
\* beyond U+10FFFF, cut short, or well-formed around one bad byte.
Payloads ==
    BytesUpTo(MaxPayloadLen)
        \cup {<<99, 108, 105, 99, 107>>, <<195, 169>>, <<226, 130, 172>>,
              <<240, 159, 152, 128>>, <<239, 191, 189>>, <<224, 128, 128>>,
              <<237, 160, 128>>, <<237, 159, 191>>, <<244, 144, 128, 128>>,
              <<244, 143, 191, 191>>, <<245, 128, 128, 128>>, <<226, 130>>,
              <<240, 159, 152>>, <<99, 255, 99>>, <<99, 195, 169, 99>>,
              <<226, 130, 172, 128>>, <<240, 128, 128, 128>>, <<224, 160, 128>>}

\* Rows of the user_events table.
UserEventDAOs ==
    [id : {U64FromNat(7), <<7, 0, 1, 0>>},
     user_id : {U64FromNat(3), <<3, 0, 2, 0>>},
     kind : {"view", "click"},
     created_at : {1},
     payload : Payloads]

MaxUsers == 2

\* Resolved users; a user's id is the identifier of its row.
Users == {[id |-> as_id(U64FromNat(k)), email |-> "email"] : k \in 1..MaxUsers}

\* Option<UserValue>: the author of the thread and retrieval shapes.
Authors == {None} \cup {Some(UserSecured(u)) : u \in Users}

\* Option<String>: the author_user_id of the storage shape.
AuthorUserIds == {None} \cup {Some(ID_to_string(u.id)) : u \in Users}

Texts == {"a", "b"}

Times == {1, 2}

\* tabby_db::AttachmentDoc
StorageDocs ==
    [variant : {"Web"}, title : Texts, link : Texts, content : Texts]
        \cup [variant : {"Issue"}, title : Texts, link : Texts,
              author_user_id : AuthorUserIds, body : Texts, closed : BOOLEAN]
        \cup [variant : {"Pull"}, title : Texts, link : Texts,
              author_user_id : AuthorUserIds, body : Texts, diff : Texts, merged : BOOLEAN]
        \cup [variant : {"Commit"}, sha : Texts, message : Texts,
              author_user_id : AuthorUserIds, author_at : Times]
        \cup [variant : {"Page"}, page_link : Texts, title : Texts, content : Texts]
        \cup [variant : {"Ingested"}, id : Texts, link : Texts, title : Texts, body : Texts]

\* thread::MessageAttachmentDoc
ThreadDocs ==
    [variant : {"Web"}, title : Texts, link : Texts, content : Texts]
        \cup [variant : {"Issue"}, title : Texts, link : Texts, author : Authors,
              body : Texts, closed : BOOLEAN]
        \cup [variant : {"Pull"}, title : Texts, link : Texts, author : Authors,
              body : Texts, patch : Texts, merged : BOOLEAN]
        \cup [variant : {"Commit"}, sha : Texts, message : Texts, author : Authors,
              author_at : Times]
        \cup [variant : {"Page"}, link : Texts, title : Texts, content : Texts]
        \cup [variant : {"Ingested"}, id : Texts, link : Texts, title : Texts, body : Texts]

\* retrieval::AttachmentDoc
RetrievalDocs ==
    [variant : {"Web"}, title : Texts, link : Texts, content : Texts]
        \cup [variant : {"Issue"}, title : Texts, link : Texts, author : Authors,
              body : Texts, closed : BOOLEAN]
        \cup [variant : {"Pull"}, title : Texts, link : Texts, author : Authors,
              body : Texts, diff : Texts, merged : BOOLEAN]
        \cup [variant : {"Commit"}, sha : Texts, message : Texts, author : Authors,
              author_at : Times]
        \cup [variant : {"Page"}, link : Texts, title : Texts, content : Texts]
        \cup [variant : {"Ingested"}, id : Texts, link : Texts, title : Texts, body : Texts]

\* usize line numbers: 0, 1, 42, i32::MAX, i32::MAX + 1, u32::MAX,
\* u32::MAX + 1, u32::MAX + 43, 2^63, usize::MAX.
UsizeLines ==
    {U64FromNat(0), U64FromNat(1), U64FromNat(42), <<LimbMax, LimbBase \div 2 - 1, 0, 0>>,
     <<0, LimbBase \div 2, 0, 0>>, <<LimbMax, LimbMax, 0, 0>>, <<0, 0, 1, 0>>,
     <<42, 0, 1, 0>>, <<0, 0, 0, LimbBase \div 2>>, <<LimbMax, LimbMax, LimbMax, LimbMax>>}

\* i32 line numbers.
I32Lines == {0, 1, 42, I32Max, -1, -42, I32Min}

\* tabby_db::AttachmentCode (usize line) and the thread and retrieval
\* shapes of it (i32 line).
CodesWith(lines) ==
    [git_url : {"git_url"}, commit : {None, Some("commit")}, filepath : {"filepath"},
     language : {"language"}, content : {"content"},
     start_line : {None} \cup {Some(x) : x \in lines}]

\* tabby_db::AttachmentClientCode (usize line), thread::MessageAttachmentCodeInput
\* (i32 line).
ClientCodesWith(lines) ==
    [filepath : {None, Some("filepath")}, content : {"content"},
     start_line : {None} \cup {Some(x) : x \in lines}]

\* Rows of the server_setting table.
ServerSettingDAOs ==
    [security_allowed_register_domain_list :
         {None, Some(<<"a.com">>), Some(<<"b.com">>), Some(<<"a.com", "b.com">>)},
     security_disable_client_side_telemetry : BOOLEAN,
     network_external_url : {"http://localhost:8080", "https://tabby.example"},
     security_disable_password_login : BOOLEAN]

MaxThreads == 2

MaxUses == 2

\* The threads that use HASHER.
Threads == 1..MaxThreads

\* A thread that has not used HASHER.
IdleThread == [pc |-> "idle", op |-> "none", local |-> None, seen |-> None, uses |-> 0,
               ret |-> None]

\* Row ids of the tables whose rows are translated: 1, 2, i32::MAX + 1,
\* u32::MAX + 2, i64::MAX.
TableRowIds ==
    {U64FromNat(1), U64FromNat(2), <<0, LimbBase \div 2, 0, 0>>, <<1, 0, 1, 0>>,
     <<LimbMax, LimbMax, LimbMax, LimbBase \div 2 - 1>>}

\* Rows of the invitations table.
InvitationDAOs ==
    [id : TableRowIds, email : {"email"}, code : {"code"}, created_at : {1}]

\* Rows of the job_runs table.
JobRunDAOs ==
    [id : TableRowIds, name : {"name"}, created_at : {1}, updated_at : {2},
     started_at : {None, Some(1)}, finished_at : {None, Some(2)},
     exit_code : {None, Some(U64FromNat(0)), Some(U64FromNat(1))}, stdout : {"stdout"}]

\* Rows of the notifications table.
NotificationDAOs ==
    [id : TableRowIds, content : {"content"}, read : BOOLEAN, created_at : {1},
     updated_at : {2}]

\* Rows of the threads table.
ThreadDAOs ==
    [id : TableRowIds, user_id : TableRowIds, is_ephemeral : BOOLEAN, created_at : {1},
     updated_at : {2}]

\* Rows of the pages table.
PageDAOs ==
    [id : TableRowIds, author_id : TableRowIds, title : {None, Some("title")},
     code_source_id : {None, Some("code_source_id")}, content : {None, Some("content")},
     created_at : {1}, updated_at : {2}]

(***************************************************************************)
(* The state machine: the calls made so far.                               *)
(***************************************************************************)
Call(op, arg, ret) == [op |-> op, arg |-> arg, ret |-> ret]

Init ==
    /\ calls = <<>>
    /\ once = "INCOMPLETE"
    /\ cell = None
    /\ constructions = 0
    /\ thread = [t \in Threads |-> IdleThread]

\* row.id.as_id() for an i64 row id
AsId ==
    /\ calls = <<>>
    /\ UNCHANGED hasherVars
    /\ \E id \in RowIds : calls' = <<Call("as_id", id, as_id(id))>>

\* id.as_id() for an i32 id
AsIdI32 ==
    /\ calls = <<>>
    /\ UNCHANGED hasherVars
    /\ \E id \in RowIdsI32 : calls' = <<Call("as_id_i32", id, as_id_i32(id))>>

\* as_rowid on the identifier an earlier as_id returned
AsRowidOfIssued ==
    /\ Len(calls) = 1
    /\ UNCHANGED hasherVars
    /\ calls[1].op \in {"as_id", "as_id_i32"}
    /\ calls' = Append(calls, Call("as_rowid", calls[1].ret, as_rowid(calls[1].ret)))

\* as_rowid on a string a client handed in
AsRowidOfGiven ==
    /\ calls = <<>>
    /\ UNCHANGED hasherVars
    /\ \E s \in GivenTokens :
           calls' = <<Call("as_rowid", ID_new(s), as_rowid(ID_new(s)))>>

EnumCall(op, kind, arg, ret) == [op |-> op, kind |-> kind, arg |-> arg, ret |-> ret]

\* e.as_enum_str() for a variant e of a DbEnum type
AsEnumStr ==
    /\ calls = <<>>
    /\ UNCHANGED hasherVars
    /\ \E kind \in DbEnumKinds :
           \E e \in Variants(kind) :
               calls' = <<EnumCall("as_enum_str", kind, e, as_enum_str(kind, e))>>

\* E::from_enum_str on the string an earlier as_enum_str wrote
FromEnumStrOfWritten ==
    /\ Len(calls) = 1
    /\ UNCHANGED hasherVars
    /\ calls[1].op = "as_enum_str"
    /\ calls' = Append(calls, EnumCall("from_enum_str", calls[1].kind, calls[1].ret,
                                       from_enum_str(calls[1].kind, calls[1].ret)))

\* E::from_enum_str on whatever the column holds
FromEnumStrOfStored ==
    /\ calls = <<>>
    /\ UNCHANGED hasherVars
    /\ \E kind \in DbEnumKinds :
           \E s \in StoredStrings :
               calls' = <<EnumCall("from_enum_str", kind, s, from_enum_str(kind, s))>>

\* Integration::try_from(row)
IntegrationTryFrom ==
    /\ calls = <<>>
    /\ UNCHANGED hasherVars
    /\ \E value \in IntegrationDAOs :
           calls' = <<Call("Integration::try_from", value, Integration_try_from(value))>>

\* UserEvent::try_from(row)
UserEventTryFrom ==
    /\ calls = <<>>
    /\ UNCHANGED hasherVars
    /\ \E value \in UserEventDAOs :
           calls' = <<Call("UserEvent::try_from", value, UserEvent_try_from(value))>>

\* from_thread_message_attachment_document(doc, author), the author being
\* whatever the caller resolved
FromThreadMessageAttachmentDocument ==
    /\ calls = <<>>
    /\ UNCHANGED hasherVars
    /\ \E doc \in StorageDocs :
           \E author \in Authors :
               calls' = <<Call("from_thread_message_attachment_document",
                               [doc |-> doc, author |-> author],
                               from_thread_message_attachment_document(doc, author))>>

\* AttachmentDoc::from(&d) for the thread document an earlier call returned
AttachmentDocFromThreadOfConverted ==
    /\ Len(calls) = 1
    /\ UNCHANGED hasherVars
    /\ calls[1].op = "from_thread_message_attachment_document"
    /\ calls' = Append(calls, Call("AttachmentDoc::from(&thread)", calls[1].ret,
                                   AttachmentDoc_from_thread(calls[1].ret)))

\* AttachmentDoc::from(&d) for a thread document
AttachmentDocFromThread ==
    /\ calls = <<>>
    /\ UNCHANGED hasherVars
    /\ \E val \in ThreadDocs :
           calls' = <<Call("AttachmentDoc::from(&thread)", val, AttachmentDoc_from_thread(val))>>

\* AttachmentDoc::from(&d) for a retrieval document
AttachmentDocFromRetrieval ==
    /\ calls = <<>>
    /\ UNCHANGED hasherVars
    /\ \E value \in RetrievalDocs :
           calls' = <<Call("AttachmentDoc::from(&retrieval)", value,
                           AttachmentDoc_from_retrieval(value))>>

\* thread::MessageAttachmentCode::from(code)
MessageAttachmentCodeFrom ==
    /\ calls = <<>>
    /\ UNCHANGED hasherVars
    /\ \E value \in CodesWith(UsizeLines) :
           calls' = <<Call("thread::MessageAttachmentCode::from", value,
                           MessageAttachmentCode_from(value))>>

\* AttachmentCode::from(&code) for a thread code attachment
AttachmentCodeFromThread ==
    /\ calls = <<>>
    /\ UNCHANGED hasherVars
    /\ \E val \in CodesWith(I32Lines) :
           calls' = <<Call("AttachmentCode::from(&thread)", val, AttachmentCode_from_thread(val))>>

\* thread::MessageAttachmentClientCode::from(code)
MessageAttachmentClientCodeFrom ==
    /\ calls = <<>>
    /\ UNCHANGED hasherVars
    /\ \E value \in ClientCodesWith(UsizeLines) :
           calls' = <<Call("thread::MessageAttachmentClientCode::from", value,
                           MessageAttachmentClientCode_from(value))>>

\* AttachmentClientCode::from(&input)
AttachmentClientCodeFromInput ==
    /\ calls = <<>>
    /\ UNCHANGED hasherVars
    /\ \E val \in ClientCodesWith(I32Lines) :
           calls' = <<Call("AttachmentClientCode::from(&input)", val,
                           AttachmentClientCode_from_input(val))>>

\* AttachmentCode::from(&code) for a retrieval code attachment
AttachmentCodeFromRetrieval ==
    /\ calls = <<>>
    /\ UNCHANGED hasherVars
    /\ \E value \in CodesWith(I32Lines) :
           calls' = <<Call("AttachmentCode::from(&retrieval)", value,
                           AttachmentCode_from_retrieval(value))>>

\* retrieval::AttachmentCode::from(&code)
RetrievalAttachmentCodeFrom ==
    /\ calls = <<>>
    /\ UNCHANGED hasherVars
    /\ \E value \in CodesWith(UsizeLines) :
           calls' = <<Call("retrieval::AttachmentCode::from", value,
                           retrieval_AttachmentCode_from(value))>>

\* SecuritySetting::from(row)
SecuritySettingFrom ==
    /\ calls = <<>>
    /\ UNCHANGED hasherVars
    /\ \E value \in ServerSettingDAOs :
           calls' = <<Call("SecuritySetting::from", value, SecuritySetting_from(value))>>

\* NetworkSetting::from(row)
NetworkSettingFrom ==
    /\ calls = <<>>
    /\ UNCHANGED hasherVars
    /\ \E value \in ServerSettingDAOs :
           calls' = <<Call("NetworkSetting::from", value, NetworkSetting_from(value))>>

\* SecuritySetting::from(row) once a settings row was projected: of the
\* same row, or of the row as it is after an update
SecuritySettingFromNext ==
    /\ Len(calls) = 1
    /\ UNCHANGED hasherVars
    /\ calls[1].op \in {"SecuritySetting::from", "NetworkSetting::from"}
    /\ \E value \in ServerSettingDAOs :
           calls' = Append(calls, Call("SecuritySetting::from", value,
                                       SecuritySetting_from(value)))

\* NetworkSetting::from(row) once a settings row was projected
NetworkSettingFromNext ==
    /\ Len(calls) = 1
    /\ UNCHANGED hasherVars
    /\ calls[1].op \in {"SecuritySetting::from", "NetworkSetting::from"}
    /\ \E value \in ServerSettingDAOs :
           calls' = Append(calls, Call("NetworkSetting::from", value,
                                       NetworkSetting_from(value)))

\* auth::Invitation::from(row)
InvitationFrom ==
    /\ calls = <<>>
    /\ UNCHANGED hasherVars
    /\ \E val \in InvitationDAOs :
           calls' = <<Call("auth::Invitation::from", val, Invitation_from(val))>>

\* job::JobRun::from(row)
JobRunFrom ==
    /\ calls = <<>>
    /\ UNCHANGED hasherVars
    /\ \E run \in JobRunDAOs : calls' = <<Call("job::JobRun::from", run, JobRun_from(run))>>

\* Notification::from(row)
NotificationFrom ==
    /\ calls = <<>>
    /\ UNCHANGED hasherVars
    /\ \E value \in NotificationDAOs :
           calls' = <<Call("Notification::from", value, Notification_from(value))>>

\* thread::Thread::from(row)
ThreadFrom ==
    /\ calls = <<>>
    /\ UNCHANGED hasherVars
    /\ \E value \in ThreadDAOs :
           calls' = <<Call("thread::Thread::from", value, Thread_from(value))>>

\* page::Page::from(row)
PageFrom ==
    /\ calls = <<>>
    /\ UNCHANGED hasherVars
    /\ \E value \in PageDAOs : calls' = <<Call("page::Page::from", value, Page_from(value))>>

\* The translators that emit identifiers.
Translators ==
    {"auth::Invitation::from", "job::JobRun::from", "Integration::try_from",
     "UserEvent::try_from", "Notification::from", "thread::Thread::from",
     "page::Page::from"}

\* The record a translator returned, through the Ok of a fallible one.
Emitted(ret) == IF "tag" \in DOMAIN ret THEN ret.val ELSE ret

\* as_rowid on an identifier of the record a translator returned
AsRowidOfEmitted ==
    /\ Len(calls) = 1
    /\ UNCHANGED hasherVars
    /\ calls[1].op \in Translators
    /\ "tag" \in DOMAIN calls[1].ret => IsOk(calls[1].ret)
    /\ \E field \in DOMAIN Emitted(calls[1].ret) \cap {"id", "user_id", "author_id"} :
           calls' = Append(calls, [op |-> "as_rowid", field |-> field,
                                   arg |-> Emitted(calls[1].ret)[field],
                                   ret |-> as_rowid(Emitted(calls[1].ret)[field])])

Next ==
    \/ AsId
    \/ AsIdI32
    \/ AsRowidOfIssued
    \/ AsRowidOfGiven
    \/ AsEnumStr
    \/ FromEnumStrOfWritten
    \/ FromEnumStrOfStored
    \/ IntegrationTryFrom
    \/ UserEventTryFrom
    \/ FromThreadMessageAttachmentDocument
    \/ AttachmentDocFromThreadOfConverted
    \/ AttachmentDocFromThread
    \/ AttachmentDocFromRetrieval
    \/ MessageAttachmentCodeFrom
    \/ AttachmentCodeFromThread
    \/ MessageAttachmentClientCodeFrom
    \/ AttachmentClientCodeFromInput
    \/ AttachmentCodeFromRetrieval
    \/ RetrievalAttachmentCodeFrom
    \/ SecuritySettingFrom
    \/ NetworkSettingFrom
    \/ SecuritySettingFromNext
    \/ NetworkSettingFromNext
    \/ InvitationFrom
    \/ JobRunFrom
    \/ NotificationFrom
    \/ ThreadFrom
    \/ PageFrom
    \/ AsRowidOfEmitted

Spec == Init /\ [][Next]_vars

(***************************************************************************)
(* The state machine of the first uses of HASHER: threads that encode or   *)
(* decode, each step of a thread being one action.                         *)
(***************************************************************************)
\* A thread starts an as_id (encode) or an as_rowid (decode)
StartUse(t) ==
    /\ thread[t].pc = "idle"
    /\ thread[t].uses < MaxUses
    /\ \E op \in {"encode", "decode"} :
           thread' = [thread EXCEPT ![t].pc = "deref", ![t].op = op, ![t].seen = None,
                                    ![t].ret = None]
    /\ UNCHANGED <<calls, once, cell, constructions>>

\* The thread dereferences HASHER: it enters Once::call_once
Deref(t) ==
    /\ thread[t].pc = "deref"
    /\ once' = call_once(once).once
    /\ thread' = [thread EXCEPT ![t].pc = call_once(once).pc]
    /\ UNCHANGED <<calls, cell, constructions>>

\* The initialiser: HashIds::builder()
Builder(t) ==
    /\ thread[t].pc = "builder"
    /\ thread' = [thread EXCEPT ![t].pc = "with_salt", ![t].local = Some(builder)]
    /\ UNCHANGED <<calls, once, cell, constructions>>

\* The initialiser: .with_salt(..)
WithSalt(t) ==
    /\ thread[t].pc = "with_salt"
    /\ thread' = [thread EXCEPT ![t].pc = "with_min_length",
                                ![t].local = Some(with_salt(thread[t].local.val))]
    /\ UNCHANGED <<calls, once, cell, constructions>>

\* The initialiser: .with_min_length(..)
WithMinLength(t) ==
    /\ thread[t].pc = "with_min_length"
    /\ thread' = [thread EXCEPT ![t].pc = "finish",
                                ![t].local = Some(with_min_length(thread[t].local.val))]
    /\ UNCHANGED <<calls, once, cell, constructions>>

\* The initialiser: .finish(), which constructs the instance
Finish(t) ==
    /\ thread[t].pc = "finish"
    /\ thread' = [thread EXCEPT ![t].pc = "set",
                                ![t].local = Some(finish(thread[t].local.val))]
    /\ constructions' = constructions + 1
    /\ UNCHANGED <<calls, once, cell>>

\* The initialiser's value is moved into the cell
SetCell(t) ==
    /\ thread[t].pc = "set"
    /\ cell' = thread[t].local
    /\ thread' = [thread EXCEPT ![t].pc = "complete", ![t].local = None]
    /\ UNCHANGED <<calls, once, constructions>>

\* call_once returns in the thread that ran the initialiser
Complete(t) ==
    /\ thread[t].pc = "complete"
    /\ once' = "COMPLETE"
    /\ thread' = [thread EXCEPT ![t].pc = "read"]
    /\ UNCHANGED <<calls, cell, constructions>>

\* call_once returns in a thread that waited for the initialiser
Wait(t) ==
    /\ thread[t].pc = "wait"
    /\ once = "COMPLETE"
    /\ thread' = [thread EXCEPT ![t].pc = "read"]
    /\ UNCHANGED <<calls, once, cell, constructions>>

\* The thread takes the reference to what the cell holds
Read(t) ==
    /\ thread[t].pc = "read"
    /\ thread' = [thread EXCEPT ![t].pc = "use", ![t].seen = cell]
    /\ UNCHANGED <<calls, once, cell, constructions>>

\* The thread encodes or decodes with the instance it got
Use(t) ==
    /\ thread[t].pc = "use"
    /\ thread' = [thread EXCEPT ![t].pc = "idle",
                                ![t].uses = thread[t].uses + 1,
                                ![t].ret = Some(use(thread[t].op, thread[t].seen))]
    /\ UNCHANGED <<calls, once, cell, constructions>>

NextOnce ==
    \/ \E t \in Threads : StartUse(t)
    \/ \E t \in Threads : Deref(t)
    \/ \E t \in Threads : Builder(t)
    \/ \E t \in Threads : WithSalt(t)
    \/ \E t \in Threads : WithMinLength(t)
    \/ \E t \in Threads : Finish(t)
    \/ \E t \in Threads : SetCell(t)
    \/ \E t \in Threads : Complete(t)
    \/ \E t \in Threads : Wait(t)
    \/ \E t \in Threads : Read(t)
    \/ \E t \in Threads : Use(t)

SpecOnce == Init /\ [][NextOnce]_vars

(***************************************************************************)
(* Properties of the identifier codec.                                     *)
(***************************************************************************)
RoundTripped(op1, op2) ==
    /\ Len(calls) = 2
    /\ calls[1].op = op1
    /\ calls[2].op = op2
    /\ calls[2].arg = calls[1].ret

\* C1: decoding the identifier that as_id made of a row id succeeds and
\* returns that row id, for an i64 id and for an i32 id widened to i64:
\* as_rowid(as_id(id)) = Ok(id).
C1_RoundTrip ==
    /\ RoundTripped("as_id", "as_rowid") => calls[2].ret = Ok(calls[1].arg)
    /\ RoundTripped("as_id_i32", "as_rowid") => calls[2].ret = Ok(I32AsI64(calls[1].arg))

\* A negative i64 (more than 32 bits as a u64) and a negative i32 made the
\* round trip.
C1_Witness ==
    \/ /\ RoundTripped("as_id", "as_rowid")
       /\ I64IsNegative(calls[1].arg)
       /\ IsOk(calls[2].ret)
    \/ /\ RoundTripped("as_id_i32", "as_rowid")
       /\ calls[1].arg < 0
       /\ IsOk(calls[2].ret)

\* Whether a string is what as_id returns for some row id: the only
\* candidate is the single number the string decodes to.
ProducedByEncode(s) ==
    LET d == decode(HASHER, s)
    IN  /\ IsSome(d)
        /\ Len(d.val) = 1
        /\ as_id(U64AsI64(d.val[1])) = ID_new(s)

\* C2: as_rowid of a string that as_id did not produce (malformed, empty,
\* of another configuration, carrying no or several numbers) is
\* Err(InvalidID), never an integer.
C2_ForeignRejected ==
    \A k \in 1..Len(calls) :
        (calls[k].op = "as_rowid" /\ ~ProducedByEncode(ID_deref(calls[k].arg)))
            => calls[k].ret = Err(InvalidID)

(***************************************************************************)
(* Properties of the DbEnum implementations.                               *)
(***************************************************************************)
\* C3: for each of the eight DbEnum types and each variant e,
\* from_enum_str(as_enum_str(e)) = Ok(e); so as_enum_str is injective over
\* the variants of a type.
C3_EnumRoundTrip ==
    /\ RoundTripped("as_enum_str", "from_enum_str") => calls[2].ret = Ok(calls[1].arg)
    /\ \A kind \in DbEnumKinds :
           \A e1 \in Variants(kind), e2 \in Variants(kind) :
               as_enum_str(kind, e1) = as_enum_str(kind, e2) => e1 = e2

\* A variant other than the first of its match made the round trip.
C3_Witness ==
    /\ RoundTripped("as_enum_str", "from_enum_str")
    /\ calls[1].kind = "OAuthProvider"
    /\ calls[1].arg = "OAuthProvider::Google"
    /\ IsOk(calls[2].ret)

\* The wire vocabulary of each enum kind, as the specification lists it.
WireVocabulary(kind) ==
    CASE kind = "EventKind" -> {"completion", "chat_completion", "select", "view", "dismiss"}
      [] kind = "IntegrationKind" ->
             {"github", "gitlab", "github_self_hosted", "gitlab_self_hosted"}
      [] kind = "Encryption" -> {"starttls", "ssltls", "none"}
      [] kind = "LdapEncryptionKind" -> {"none", "starttls", "ldaps"}
      [] kind = "AuthMethod" -> {"none", "plain", "login"}
      [] kind = "thread::Role" -> {"assistant", "user"}
      [] kind = "NotificationRecipient" -> {"admin", "all_user"}
      [] kind = "OAuthProvider" -> {"github", "google", "gitlab"}

\* C4: from_enum_str of a string outside the type's vocabulary is an error,
\* and the error names both the enum type and the offending string.
C4_ErrorNamesKindAndString ==
    \A k \in 1..Len(calls) :
        (calls[k].op = "from_enum_str" /\ calls[k].arg \notin WireVocabulary(calls[k].kind))
            => /\ IsErr(calls[k].ret)
               /\ InSeq(calls[k].kind, calls[k].ret.err.anyhow)
               /\ InSeq(calls[k].arg, calls[k].ret.err.anyhow)

\* C5: from_enum_str accepts exactly (and case-sensitively) the strings of
\* the type's wire vocabulary, and as_enum_str only emits strings of it.
C5_ExactVocabulary ==
    \A k \in 1..Len(calls) :
        /\ calls[k].op = "from_enum_str"
               => (IsOk(calls[k].ret) <=> calls[k].arg \in WireVocabulary(calls[k].kind))
        /\ calls[k].op = "as_enum_str" => calls[k].ret \in WireVocabulary(calls[k].kind)

\* A string of the vocabulary in another case was refused.
C5_Witness ==
    /\ Len(calls) = 1
    /\ calls[1].op = "from_enum_str"
    /\ calls[1].kind = "AuthMethod"
    /\ calls[1].arg = "PLAIN"
    /\ IsErr(calls[1].ret)

(***************************************************************************)
(* Properties of the record translators.                                   *)
(***************************************************************************)
Converted(k, op) == k \in 1..Len(calls) /\ calls[k].op = op

\* C6: an integration row with a valid kind converts to status Failed when
\* its error is present, whatever synced is; to Ready when synced and no
\* error; to Pending when neither: the error takes precedence over synced.
C6_IntegrationStatus ==
    \A k \in 1..Len(calls) :
        (Converted(k, "Integration::try_from")
             /\ calls[k].arg.kind \in WireVocabulary("IntegrationKind"))
            => /\ IsOk(calls[k].ret)
               /\ calls[k].ret.val.status =
                      (IF calls[k].arg.error # None THEN "IntegrationStatus::Failed"
                       ELSE IF calls[k].arg.synced THEN "IntegrationStatus::Ready"
                       ELSE "IntegrationStatus::Pending")

\* A synced row that carries an error was converted, to Failed.
C6_Witness ==
    /\ Converted(1, "Integration::try_from")
    /\ calls[1].arg.synced
    /\ calls[1].arg.error # None
    /\ IsOk(calls[1].ret)
    /\ calls[1].ret.val.status = "IntegrationStatus::Failed"

\* The bytes of the UTF-8 encoding of a Unicode scalar value, by definition
\* (Unicode, table 3-6).
Utf8Of(cp) ==
    IF cp < 128 THEN <<cp>>
    ELSE IF cp < 2048 THEN <<192 + (cp \div 64), 128 + (cp % 64)>>
    ELSE IF cp < 65536
         THEN <<224 + (cp \div 4096), 128 + ((cp \div 64) % 64), 128 + (cp % 64)>>
    ELSE <<240 + (cp \div 262144), 128 + ((cp \div 4096) % 64),
           128 + ((cp \div 64) % 64), 128 + (cp % 64)>>

IsScalarValue(cp) == cp >= 0 /\ cp <= 1114111 /\ ~(cp >= 55296 /\ cp <= 57343)

\* The payload bits of n bytes read as a lead byte and continuation bytes.
BitsOf(b) ==
    CASE Len(b) = 1 -> b[1]
      [] Len(b) = 2 -> (b[1] % 32) * 64 + (b[2] % 64)
      [] Len(b) = 3 -> (b[1] % 16) * 4096 + (b[2] % 64) * 64 + (b[3] % 64)
      [] Len(b) = 4 ->
             (b[1] % 8) * 262144 + (b[2] % 64) * 4096 + (b[3] % 64) * 64 + (b[4] % 64)

\* Whether b is the encoding of one scalar value.
EncodesScalar(b) == IsScalarValue(BitsOf(b)) /\ Utf8Of(BitsOf(b)) = b

RECURSIVE IsUtf8Text(_)
\* Whether b is the concatenation of encodings of scalar values.
IsUtf8Text(b) ==
    \/ Len(b) = 0
    \/ \E n \in 1..(IF Len(b) < 4 THEN Len(b) ELSE 4) :
           EncodesScalar(Take(b, n)) /\ IsUtf8Text(Drop(b, n))

\* C10: an event row with a valid kind converts to a record whose payload
\* is the stored bytes read as UTF-8 when they are valid UTF-8, and to an
\* error when they are not; never to a payload with substituted characters.
C10_EventPayload ==
    \A k \in 1..Len(calls) :
        (Converted(k, "UserEvent::try_from")
             /\ calls[k].arg.kind \in WireVocabulary("EventKind"))
            => IF IsUtf8Text(calls[k].arg.payload)
               THEN IsOk(calls[k].ret) /\ calls[k].ret.val.payload.utf8 = calls[k].arg.payload
               ELSE IsErr(calls[k].ret)

\* A payload that is not UTF-8 failed the conversion of a row of valid kind.
C10_Witness ==
    /\ Converted(1, "UserEvent::try_from")
    /\ calls[1].arg.kind = "view"
    /\ calls[1].arg.payload = <<99, 255, 99>>
    /\ IsErr(calls[1].ret)

(***************************************************************************)
(* Properties of the attachment conversions.                               *)
(***************************************************************************)
HasAuthor(variant) == variant \in {"Issue", "Pull", "Commit"}

\* The raw id of an optional resolved author.
RawIdOf(author) ==
    IF author = None THEN None ELSE Some(ID_to_string(author.val.user.id))

\* C7: for each of the six kinds, a storage document converted to the thread
\* shape with the author resolved from its author_user_id, and converted
\* back, is the storage document again: same kind, same fields, and the
\* same raw author id (an absent one stays absent).
C7_AttachmentRoundTrip ==
    (/\ RoundTripped("from_thread_message_attachment_document", "AttachmentDoc::from(&thread)")
     /\ HasAuthor(calls[1].arg.doc.variant)
            => RawIdOf(calls[1].arg.author) = calls[1].arg.doc.author_user_id)
        => calls[2].ret = calls[1].arg.doc

\* A pull request with a stored author made the round trip.
C7_Witness ==
    /\ RoundTripped("from_thread_message_attachment_document", "AttachmentDoc::from(&thread)")
    /\ calls[1].arg.doc.variant = "Pull"
    /\ calls[1].arg.doc.author_user_id # None
    /\ calls[1].arg.doc.diff # calls[1].arg.doc.body
    /\ RawIdOf(calls[1].arg.author) = calls[1].arg.doc.author_user_id
    /\ calls[2].ret = calls[1].arg.doc

\* The field of the thread shape that holds field f of the storage shape.
ThreadField(variant, f) ==
    CASE f = "author_user_id" -> "author"
      [] variant = "Pull" /\ f = "diff" -> "patch"
      [] variant = "Page" /\ f = "page_link" -> "link"
      [] OTHER -> f

\* The field of the retrieval shape that holds field f of the storage shape.
RetrievalField(variant, f) ==
    CASE f = "author_user_id" -> "author"
      [] variant = "Page" /\ f = "page_link" -> "link"
      [] OTHER -> f

\* The storage document and the document of another shape have the same
\* variant and, field by field under the renaming, the same values but for
\* the author; neither has a field the other lacks.
SameButAuthor(storage, other, Field(_, _)) ==
    /\ other.variant = storage.variant
    /\ DOMAIN other = {Field(storage.variant, f) : f \in DOMAIN storage}
    /\ \A f \in DOMAIN storage \ {"author_user_id"} :
           other[Field(storage.variant, f)] = storage[f]

\* C8: each attachment-document conversion (storage to thread, thread to
\* storage, retrieval to storage) keeps the kind and copies every field of
\* the kind verbatim, dropping none; only the author changes: the two
\* conversions to storage store the raw id of the resolved author.
C8_FieldsVerbatim ==
    \A k \in 1..Len(calls) :
        /\ Converted(k, "from_thread_message_attachment_document")
               => /\ SameButAuthor(calls[k].arg.doc, calls[k].ret, ThreadField)
                  /\ HasAuthor(calls[k].ret.variant) => calls[k].ret.author = calls[k].arg.author
        /\ Converted(k, "AttachmentDoc::from(&thread)")
               => /\ SameButAuthor(calls[k].ret, calls[k].arg, ThreadField)
                  /\ HasAuthor(calls[k].ret.variant)
                         => calls[k].ret.author_user_id = RawIdOf(calls[k].arg.author)
        /\ Converted(k, "AttachmentDoc::from(&retrieval)")
               => /\ SameButAuthor(calls[k].ret, calls[k].arg, RetrievalField)
                  /\ HasAuthor(calls[k].ret.variant)
                         => calls[k].ret.author_user_id = RawIdOf(calls[k].arg.author)

\* A retrieval document whose fields all differ was converted to storage.
C8_Witness ==
    /\ Converted(1, "AttachmentDoc::from(&retrieval)")
    /\ calls[1].arg.variant = "Ingested"
    /\ calls[1].arg.id # calls[1].arg.link
    /\ calls[1].arg.title # calls[1].arg.body
    /\ calls[1].ret.variant = "Ingested"

\* The conversions of a code attachment whose start_line goes from usize to
\* i32, and those where it goes from i32 to usize.
UsizeToI32 ==
    {"thread::MessageAttachmentCode::from", "thread::MessageAttachmentClientCode::from",
     "retrieval::AttachmentCode::from"}

I32ToUsize ==
    {"AttachmentCode::from(&thread)", "AttachmentClientCode::from(&input)",
     "AttachmentCode::from(&retrieval)"}

\* Whether a usize and an i32 are the same number.
SameNumber(u, i) == i >= 0 /\ u = <<i % LimbBase, i \div LimbBase, 0, 0>>

\* Whether a conversion's result is a failure.
Failed(ret) == "tag" \in DOMAIN ret /\ ret.tag = "Err"

\* C9: when the start_line of a code attachment does not fit the integer
\* type it is converted to, the conversion fails; the converted start_line
\* is never a number other than the original.
C9_LineNeverTruncated ==
    \A k \in 1..Len(calls) :
        /\ (calls[k].op \in UsizeToI32 /\ calls[k].arg.start_line # None)
               => \/ Failed(calls[k].ret)
                  \/ /\ calls[k].ret.start_line # None
                     /\ SameNumber(calls[k].arg.start_line.val, calls[k].ret.start_line.val)
        /\ (calls[k].op \in I32ToUsize /\ calls[k].arg.start_line # None)
               => \/ Failed(calls[k].ret)
                  \/ /\ calls[k].ret.start_line # None
                     /\ SameNumber(calls[k].ret.start_line.val, calls[k].arg.start_line.val)

(***************************************************************************)
(* Properties of the settings projections.                                 *)
(***************************************************************************)
\* The fields of a settings row that the security view is made of.
SecurityFields ==
    {"security_allowed_register_domain_list", "security_disable_client_side_telemetry",
     "security_disable_password_login"}

\* The fields of a settings row that the network view is made of.
NetworkFields == {"network_external_url"}

\* Whether two rows hold the same values in the given fields.
AgreeOn(row1, row2, fields) == \A f \in fields : row1[f] = row2[f]

\* The domains a stored list stands for.
DomainsOf(list) == IF list = None THEN <<>> ELSE list.val

\* C11: the network view of a settings row holds the row's external url and
\* nothing else, the security view holds the row's three security fields
\* and nothing else; so two rows with the same external url have the same
\* network view and two rows with the same security fields the same
\* security view, whatever the fields of the other group are.
C11_SettingsDisjoint ==
    /\ \A k \in 1..Len(calls) :
           /\ Converted(k, "NetworkSetting::from")
                  => calls[k].ret = [external_url |-> calls[k].arg.network_external_url]
           /\ Converted(k, "SecuritySetting::from")
                  => /\ DOMAIN calls[k].ret =
                            {"allowed_register_domain_list", "disable_client_side_telemetry",
                             "disable_password_login"}
                     /\ calls[k].ret.allowed_register_domain_list =
                            DomainsOf(calls[k].arg.security_allowed_register_domain_list)
                     /\ calls[k].ret.disable_client_side_telemetry =
                            calls[k].arg.security_disable_client_side_telemetry
                     /\ calls[k].ret.disable_password_login =
                            calls[k].arg.security_disable_password_login
    /\ (Len(calls) = 2 /\ calls[1].op = calls[2].op)
           => /\ (calls[1].op = "NetworkSetting::from"
                      /\ AgreeOn(calls[1].arg, calls[2].arg, NetworkFields))
                     => calls[1].ret = calls[2].ret
              /\ (calls[1].op = "SecuritySetting::from"
                      /\ AgreeOn(calls[1].arg, calls[2].arg, SecurityFields))
                     => calls[1].ret = calls[2].ret

\* Two rows that differ in the external url and in nothing else gave the
\* same security view, with one flag set and the other not.
C11_Witness ==
    /\ Len(calls) = 2
    /\ calls[1].op = "SecuritySetting::from"
    /\ calls[2].op = "SecuritySetting::from"
    /\ calls[1].arg.network_external_url # calls[2].arg.network_external_url
    /\ AgreeOn(calls[1].arg, calls[2].arg, SecurityFields)
    /\ calls[1].arg.security_disable_client_side_telemetry
    /\ ~calls[1].arg.security_disable_password_login
    /\ calls[1].ret = calls[2].ret

(***************************************************************************)
(* Properties of the lazily built HASHER.                                  *)
(***************************************************************************)
\* "tabby-id-serializer"
FixedSalt ==
    <<116, 97, 98, 98, 121, 45, 105, 100, 45, 115, 101, 114, 105, 97, 108, 105, 122, 101,
      114>>

\* The one instance there may be: salt "tabby-id-serializer", minimum
\* length 6.
TheInstance == HashIdsBuild(FixedSalt, 6)

\* Whether a thread holds a reference it took from HASHER.
HoldsReference(t) == thread[t].pc = "use"

\* C12: however the first uses of encode and decode interleave, the codec
\* instance is constructed at most once, and exactly once by the time
\* any caller holds it; what the cell holds is the instance of the fixed
\* salt and minimum length 6; a caller that gets the reference gets that
\* instance, never an empty cell or a builder in progress; and once the
\* cell is set and the Once complete, neither changes again.
C12_ConstructedOnce ==
    /\ [](/\ constructions <= 1
          /\ cell # None => (cell = Some(TheInstance) /\ constructions = 1)
          /\ once = "COMPLETE" => cell # None
          /\ \A t \in Threads :
                 /\ HoldsReference(t) => thread[t].seen = Some(TheInstance)
                 /\ thread[t].ret # None => ~thread[t].ret.val.panicked)
    /\ [][/\ cell # None => cell' = cell
          /\ once = "COMPLETE" => once' = "COMPLETE"
          /\ constructions = 1 => constructions' = 1]_vars

\* Two threads made their first use at the same time, one encoding and one
\* decoding; one of them had to wait for the other's construction, and both
\* hold the instance.
C12_Witness ==
    /\ HoldsReference(1)
    /\ HoldsReference(2)
    /\ thread[1].uses = 0
    /\ thread[2].uses = 0
    /\ thread[1].op = "encode"
    /\ thread[2].op = "decode"
    /\ constructions = 1
    /\ thread[1].seen = cell
    /\ thread[2].seen = cell

(***************************************************************************)
(* Properties of the identifiers the record translators emit.              *)
(***************************************************************************)
\* C13: as_rowid of an identifier a record translator emitted (id, user_id
\* or author_id of an invitation, job run, integration, event, notification,
\* thread or page) is Ok of the integer the row holds in that field, for
\* every i64 row id; so rows with different ids get different identifiers.
C13_EmittedIdsDecode ==
    (/\ Len(calls) = 2
     /\ calls[1].op \in Translators
     /\ calls[2].op = "as_rowid")
        => calls[2].ret = Ok(calls[1].arg[calls[2].field])

=============================================================================
